---- MODULE Spec2Model ----
(***************************************************************************)
(* Y2K grid gradient generator (src/src/App.tsx).                          *)
(*                                                                         *)
(* Five specifications share the variables below:                          *)
(*   SpecCell     the cell resolver getCellInfo, swept over axis           *)
(*                percentages                                              *)
(*   SpecGen      one call of generateGradientSVG, cell by cell, then the  *)
(*                merge and the serializer's element list                  *)
(*   FairSpecGen  such a call on degenerate arguments, taking steps while  *)
(*                it has one to take                                       *)
(*   SpecCalls    several calls of generateGradientSVG, one after another  *)
(*   Spec         the App component: load from the URL, form edits,        *)
(*                render, URL sync effect, reload                          *)
(*                                                                         *)
(* A JavaScript number is a pair <<n, d>>: the rational n/d in lowest      *)
(* terms with d > 0, or <<1,0>>, <<-1,0>>, <<0,0>> for Infinity,           *)
(* -Infinity and NaN.  Arithmetic is exact: the rounding error of IEEE-754 *)
(* doubles is not modelled.                                                *)
(***************************************************************************)
EXTENDS Integers, Sequences, FiniteSets, TLC

VARIABLES
    \* App state (useState, App.tsx:361-368) = arguments of generateGradientSVG
    width, height, squareSize, sizeStep, stops, bgColor, angle, mergeRects,
    \* the axis percentage last resolved by getCellInfo, its result, the
    \* index of the segment that answered (0: none did), and the earlier
    \* resolutions <<xPercent, cell, segIdx>> of the run, oldest first
    xPercent, cell, segIdx, trail,
    \* one call of generateGradientSVG: where it stands, the loop counters,
    \* the three layers, the merged list and the serializer's elements
    pc, row, col, bgLayer, fgSolidLayer, fgAlphaLayer, mergedRects, elements,
    \* the page: the 'config' query parameter of its URL, the arguments of the
    \* calls of generateGradientSVG since it loaded, the edits made so far
    url, invoked, edits,
    \* the calls of generateGradientSVG that have returned before the one
    \* under way: <<arguments, elements>>, oldest first
    returned

vars == <<width, height, squareSize, sizeStep, stops, bgColor, angle, mergeRects,
          xPercent, cell, segIdx, trail,
          pc, row, col, bgLayer, fgSolidLayer, fgAlphaLayer, mergedRects, elements,
          url, invoked, edits, returned>>

uiVars == <<url, invoked, edits, returned>>

genVars == <<pc, row, col, bgLayer, fgSolidLayer, fgAlphaLayer, mergedRects, elements>>

cfgVars == <<width, height, squareSize, sizeStep, stops, bgColor, angle, mergeRects>>

----------------------------------------------------------------------------
(* Numbers *)

\* The one element of a singleton.  An operator's argument is evaluated
\* wherever the body names it; Only({e(x) : x \in {a}}) evaluates a once.
Only(S) == CHOOSE v \in S : TRUE

Abs(x) == IF x < 0 THEN -x ELSE x

RECURSIVE Gcd(_, _)
Gcd(a, b) == Only({IF y = 0 THEN x ELSE Gcd(y, x % y) : x \in {a}, y \in {b}})

\* n/d in lowest terms, d # 0
Rat(n, d) ==
    Only({LET g == Gcd(Abs(x), Abs(y))
              s == IF y < 0 THEN -1 ELSE 1
          IN  <<s * (x \div g), s * (y \div g)>> : x \in {n}, y \in {d}})

Num(n) == <<n, 1>>
Infinity == <<1, 0>>
NegInfinity == <<-1, 0>>
NaN == <<0, 0>>
IsFinite(a) == a[2] # 0

Zero == Num(0)
One == Num(1)

Lcm(a, b) == Only({(x \div Gcd(x, y)) * y : x \in {a}, y \in {b}})

\* a + b, a - b, a * b on finite numbers
Add(a, b) ==
    Only({Only({Rat(x[1] * (l \div x[2]) + y[1] * (l \div y[2]), l) :
                   l \in {Lcm(x[2], y[2])}}) : x \in {a}, y \in {b}})
Neg(a) == Only({<<-x[1], x[2]>> : x \in {a}})
Sub(a, b) == Add(a, Neg(b))
Mul(a, b) ==
    Only({Only({Rat((x[1] \div g1) * (y[1] \div g2),
                    (x[2] \div g2) * (y[2] \div g1)) :
                   g1 \in {Gcd(Abs(x[1]), y[2])}, g2 \in {Gcd(Abs(y[1]), x[2])}}) :
             x \in {a}, y \in {b}})

\* a / b for finite a, b: x/0 is Infinity, -Infinity or NaN as in JavaScript
Div(a, b) ==
    Only({IF y[1] = 0
          THEN (IF x[1] > 0 THEN Infinity
                ELSE IF x[1] < 0 THEN NegInfinity ELSE NaN)
          ELSE Mul(x, IF y[1] < 0 THEN <<-y[2], -y[1]>> ELSE <<y[2], y[1]>>) :
             x \in {a}, y \in {b}})

\* a < b, a <= b as JavaScript compares numbers: false when either is NaN
Lt(a, b) ==
    \E x \in {a}, y \in {b} :
        IF x = NaN \/ y = NaN THEN FALSE
        ELSE IF x[2] = 0 /\ y[2] = 0 THEN x[1] < y[1]
        ELSE IF x[2] = 0 THEN x[1] < 0
        ELSE IF y[2] = 0 THEN y[1] > 0
        ELSE \E l \in {Lcm(x[2], y[2])} :
                 x[1] * (l \div x[2]) < y[1] * (l \div y[2])
Le(a, b) == \E x \in {a}, y \in {b} : x # NaN /\ y # NaN /\ (x = y \/ Lt(x, y))
Gt(a, b) == Lt(b, a)
Ge(a, b) == Le(b, a)

\* Math.floor, Math.ceil (a non-finite number is returned as it is)
Floor(a) == Only({IF IsFinite(x) THEN Num(x[1] \div x[2]) ELSE x : x \in {a}})
Ceil(a) == Only({IF IsFinite(x) THEN Num(-((-x[1]) \div x[2])) ELSE x : x \in {a}})

----------------------------------------------------------------------------
(* Stop model and cell resolver *)

Null == "null"

\* params.get('config') when the URL has no such parameter
NoParam == <<"absent", "">>

Stop(p, c, l) == [position |-> p, color |-> c, isLargeEnd |-> l]

\* Array.prototype.sort is stable: insertion of each stop after the stops
\* whose position is not greater
RECURSIVE InsertStop(_, _)
InsertStop(sorted, s) ==
    IF sorted = <<>> THEN <<s>>
    ELSE IF Lt(s.position, Head(sorted).position)
         THEN <<s>> \o sorted
         ELSE <<Head(sorted)>> \o InsertStop(Tail(sorted), s)

RECURSIVE SortFrom(_, _, _)
SortFrom(ss, i, acc) ==
    IF i > Len(ss) THEN acc ELSE SortFrom(ss, i + 1, InsertStop(acc, ss[i]))

\* mutant: the caller's order kept
sortedStopsAsGiven(ss) == ss

sortedStops(ss) == SortFrom(ss, 1, <<>>)

\* mutant: the both-large case takes the later stop's color
SegmentLaterColor(s0, s1) ==
    LET cls ==
          IF s0.isLargeEnd /\ ~s1.isLargeEnd
          THEN [fgColor |-> s0.color, bgColor |-> s1.color, largeAtStart |-> "true"]
          ELSE IF ~s0.isLargeEnd /\ s1.isLargeEnd
          THEN [fgColor |-> s1.color, bgColor |-> s0.color, largeAtStart |-> "false"]
          ELSE IF s0.isLargeEnd /\ s1.isLargeEnd
          THEN [fgColor |-> s1.color, bgColor |-> Null, largeAtStart |-> "null"]
          ELSE [fgColor |-> Null, bgColor |-> s0.color, largeAtStart |-> "null"]
    IN  [startPct |-> s0.position, endPct |-> s1.position,
         fgColor |-> cls.fgColor, bgColor |-> cls.bgColor,
         largeAtStart |-> cls.largeAtStart, s0 |-> s0, s1 |-> s1]

\* One segment of the loop at App.tsx:99-123; largeAtStart is "true",
\* "false" or "null"
Segment(s0, s1) ==
    LET cls ==
          IF s0.isLargeEnd /\ ~s1.isLargeEnd
          THEN [fgColor |-> s0.color, bgColor |-> s1.color, largeAtStart |-> "true"]
          ELSE IF ~s0.isLargeEnd /\ s1.isLargeEnd
          THEN [fgColor |-> s1.color, bgColor |-> s0.color, largeAtStart |-> "false"]
          ELSE IF s0.isLargeEnd /\ s1.isLargeEnd
          THEN [fgColor |-> s0.color, bgColor |-> Null, largeAtStart |-> "null"]
          ELSE [fgColor |-> Null, bgColor |-> s0.color, largeAtStart |-> "null"]
    IN  [startPct |-> s0.position, endPct |-> s1.position,
         fgColor |-> cls.fgColor, bgColor |-> cls.bgColor,
         largeAtStart |-> cls.largeAtStart, s0 |-> s0, s1 |-> s1]

segments(sorted) ==
    [i \in 1..(IF Len(sorted) = 0 THEN 0 ELSE Len(sorted) - 1) |->
        Segment(sorted[i], sorted[i + 1])]

\* mutant: the cubic written with 3 - t
smoothstepSlip(t) == Mul(Mul(t, t), Sub(Num(3), t))

smoothstep(t) == Mul(Mul(t, t), Sub(Num(3), Mul(Num(2), t)))

Black == "#000"

\* mutant: the two kinds of stop exchanged
EndInfoExchanged(s, globalBg) ==
    IF ~s.isLargeEnd
    THEN [fg |-> s.color, bg |-> globalBg, size |-> One]
    ELSE [fg |-> Null, bg |-> s.color, size |-> Zero]

\* The rule for a cell at or before the first stop, at or after the last
EndInfo(s, globalBg) ==
    IF s.isLargeEnd
    THEN [fg |-> s.color, bg |-> globalBg, size |-> One]
    ELSE [fg |-> Null, bg |-> s.color, size |-> Zero]

\* mutant: t taken as the distance from the segment's start, not its share
SegInfoUnscaled(seg, globalBg, x) ==
    LET range == Sub(seg.endPct, seg.startPct)
        t == IF range = Zero THEN Zero ELSE Sub(x, seg.startPct)
        eased == smoothstep(t)
    IN  IF seg.largeAtStart = "true"
        THEN [fg |-> seg.fgColor, bg |-> seg.bgColor, size |-> Sub(One, eased)]
        ELSE IF seg.largeAtStart = "false"
        THEN [fg |-> seg.fgColor, bg |-> seg.bgColor, size |-> eased]
        ELSE IF seg.fgColor # Null
        THEN [fg |-> seg.s0.color, bg |-> globalBg, size |-> One]
        ELSE [fg |-> Null, bg |-> seg.bgColor, size |-> Zero]

\* The body of the segment loop for the segment that matched
SegInfo(seg, globalBg, x) ==
    LET range == Sub(seg.endPct, seg.startPct)
        t == IF range = Zero THEN Zero ELSE Div(Sub(x, seg.startPct), range)
        eased == smoothstep(t)
    IN  IF seg.largeAtStart = "true"
        THEN [fg |-> seg.fgColor, bg |-> seg.bgColor, size |-> Sub(One, eased)]
        ELSE IF seg.largeAtStart = "false"
        THEN [fg |-> seg.fgColor, bg |-> seg.bgColor, size |-> eased]
        ELSE IF seg.fgColor # Null
        THEN [fg |-> seg.s0.color, bg |-> globalBg, size |-> One]
        ELSE [fg |-> Null, bg |-> seg.bgColor, size |-> Zero]

\* mutant: a segment does not contain its two ends
RECURSIVE FirstMatchOpen(_, _, _)
FirstMatchOpen(segs, x, i) ==
    IF i > Len(segs) THEN 0
    ELSE IF Gt(x, segs[i].startPct) /\ Lt(x, segs[i].endPct) THEN i
    ELSE FirstMatchOpen(segs, x, i + 1)

\* mutant: the scan leaves out the segment it is started at
RECURSIVE FirstMatchAfter(_, _, _)
FirstMatchAfter(segs, x, i) ==
    IF i + 1 > Len(segs) THEN 0
    ELSE IF Ge(x, segs[i + 1].startPct) /\ Le(x, segs[i + 1].endPct) THEN i + 1
    ELSE FirstMatchAfter(segs, x, i + 1)

\* for (const seg of segments): the index of the first segment that
\* contains x, 0 when none does
RECURSIVE FirstMatch(_, _, _)
FirstMatch(segs, x, i) ==
    IF i > Len(segs) THEN 0
    ELSE IF Ge(x, segs[i].startPct) /\ Le(x, segs[i].endPct) THEN i
    ELSE FirstMatch(segs, x, i + 1)

\* mutant: the two boundary tests made strict
BranchStrict(sorted, x) ==
    IF Len(sorted) = 0 THEN "empty"
    ELSE IF Lt(x, sorted[1].position) THEN "first"
    ELSE IF Gt(x, sorted[Len(sorted)].position) THEN "last"
    ELSE IF FirstMatch(segments(sorted), x, 1) = 0 THEN "fallback"
    ELSE "segment"

\* Which return statement of getCellInfo is taken: "empty", "first",
\* "last", "segment" or "fallback"
Branch(sorted, x) ==
    IF Len(sorted) = 0 THEN "empty"
    ELSE IF Le(x, sorted[1].position) THEN "first"
    ELSE IF Ge(x, sorted[Len(sorted)].position) THEN "last"
    ELSE IF FirstMatch(segments(sorted), x, 1) = 0 THEN "fallback"
    ELSE "segment"

getCellInfo(sorted, globalBg, x) ==
    LET b == Branch(sorted, x)
    IN  IF b = "empty" THEN [fg |-> Black, bg |-> globalBg, size |-> One]
        ELSE IF b = "first" THEN EndInfo(sorted[1], globalBg)
        ELSE IF b = "last" THEN EndInfo(sorted[Len(sorted)], globalBg)
        ELSE IF b = "segment"
        THEN LET segs == segments(sorted)
             IN  SegInfo(segs[FirstMatch(segs, x, 1)], globalBg, x)
        ELSE [fg |-> Black, bg |-> globalBg, size |-> One]

\* The index of the segment whose loop body returns for x, 0 when a
\* boundary rule or a fallback answers
SegIndex(sorted, x) ==
    IF Branch(sorted, x) = "segment" THEN FirstMatch(segments(sorted), x, 1) ELSE 0

----------------------------------------------------------------------------
(* Projection: App.tsx:80-91 *)

\* Math.sin and Math.cos of a whole number of eighth turns, in degrees.
\* At an odd eighth both have the magnitude SQRT1_2, written as 1 here:
\* the factor is common to projected, minProj and projRange and cancels in
\* xPercent.
SinDeg(a) ==
    LET o == (a[1] \div 45) % 8
    IN  IF o \in {1, 2, 3} THEN One ELSE IF o \in {5, 6, 7} THEN Num(-1) ELSE Zero
CosDeg(a) ==
    LET o == (a[1] \div 45) % 8
    IN  IF o \in {7, 0, 1} THEN One ELSE IF o \in {3, 4, 5} THEN Num(-1) ELSE Zero

RECURSIVE MinFrom(_, _, _)
MinFrom(seq, i, m) ==
    IF i > Len(seq) THEN m
    ELSE MinFrom(seq, i + 1, IF Lt(seq[i], m) THEN seq[i] ELSE m)
RECURSIVE MaxFrom(_, _, _)
MaxFrom(seq, i, m) ==
    IF i > Len(seq) THEN m
    ELSE MaxFrom(seq, i + 1, IF Gt(seq[i], m) THEN seq[i] ELSE m)

cols == Ceil(Div(width, squareSize))
rows == Ceil(Div(height, squareSize))
cosA == SinDeg(angle)
sinA == Neg(CosDeg(angle))
corners ==
    <<Zero, Mul(width, cosA), Mul(height, sinA),
      Add(Mul(width, cosA), Mul(height, sinA))>>
minProj == MinFrom(corners, 2, corners[1])
maxProj == MaxFrom(corners, 2, corners[1])
projRange == Sub(maxProj, minProj)

Half(a) == Div(a, Num(2))

\* mutant: the projection not shifted by the least one
AxisPercentUnshifted(r, c) ==
    LET cx == Add(Mul(Num(c), squareSize), Half(squareSize))
        cy == Add(Mul(Num(r), squareSize), Half(squareSize))
        projected == Add(Mul(cx, cosA), Mul(cy, sinA))
    IN  IF projRange = Zero THEN Num(50)
        ELSE Mul(Div(projected, projRange), Num(100))

\* xPercent of the cell in row r, column c (App.tsx:174-179)
AxisPercent(r, c) ==
    LET cx == Add(Mul(Num(c), squareSize), Half(squareSize))
        cy == Add(Mul(Num(r), squareSize), Half(squareSize))
        projected == Add(Mul(cx, cosA), Mul(cy, sinA))
    IN  IF projRange = Zero THEN Num(50)
        ELSE Mul(Div(Sub(projected, minProj), projRange), Num(100))

----------------------------------------------------------------------------
(* Rectangle emitter: App.tsx:158-213 *)

NoOpacity == <<>>
Geometric == "geometricPrecision"

Rect(x, y, w, h, fill, opacity, shape) ==
    [x |-> x, y |-> y, w |-> w, h |-> h, fill |-> fill,
     opacity |-> opacity, shapeRendering |-> shape]

\* a color in a condition: null and the empty string are falsy
Truthy(c) == c # Null /\ c # ""

DeadZone == Rat(1, 1000)

\* a square of side s centred on the centre of cell (r, c)
Centred(r, c, s, fill, opacity) ==
    LET cx == Add(Mul(Num(c), squareSize), Half(squareSize))
        cellY == Mul(Num(r), squareSize)
    IN  Rect(Sub(cx, Half(s)), Sub(Add(cellY, Half(squareSize)), Half(s)),
             s, s, fill, opacity, Geometric)

\* what cell (r, c) with result info pushes on bgLayer
BgRects(r, c, info) ==
    IF Truthy(info.bg) /\ info.bg # bgColor
    THEN <<Rect(Mul(Num(c), squareSize), Mul(Num(r), squareSize),
                squareSize, squareSize, info.bg, NoOpacity, "")>>
    ELSE <<>>

\* mutant: every positive step quantizes
SteppedAnyPositive == Gt(sizeStep, Zero)

Stepped == Gt(sizeStep, Zero) /\ Lt(sizeStep, squareSize)
\* mutant: the raw size rounded up to a whole number of steps
LowerCeil(rawSize) == Mul(Ceil(Div(rawSize, sizeStep)), sizeStep)

Lower(rawSize) == Mul(Floor(Div(rawSize, sizeStep)), sizeStep)

\* what it pushes on fgSolidLayer
FgSolidRects(r, c, info) ==
    IF Truthy(info.fg) /\ Gt(info.size, DeadZone)
    THEN LET rawSize == Mul(squareSize, info.size)
         IN  IF Stepped
             THEN (IF Gt(Lower(rawSize), Zero)
                   THEN <<Centred(r, c, Lower(rawSize), info.fg, NoOpacity)>>
                   ELSE <<>>)
             ELSE (IF Gt(rawSize, Zero)
                   THEN <<Centred(r, c, rawSize, info.fg, NoOpacity)>>
                   ELSE <<>>)
    ELSE <<>>

\* mutant: the larger square pushed whatever its side
FgAlphaRectsUnbounded(r, c, info) ==
    IF Truthy(info.fg) /\ Gt(info.size, DeadZone) /\ Stepped
    THEN LET rawSize == Mul(squareSize, info.size)
             lower == Lower(rawSize)
             upper == Add(lower, sizeStep)
             frac == Div(Sub(rawSize, lower), sizeStep)
         IN  IF Gt(frac, DeadZone)
             THEN <<Centred(r, c, upper, info.fg, frac)>>
             ELSE <<>>
    ELSE <<>>

\* what it pushes on fgAlphaLayer
FgAlphaRects(r, c, info) ==
    IF Truthy(info.fg) /\ Gt(info.size, DeadZone) /\ Stepped
    THEN LET rawSize == Mul(squareSize, info.size)
             lower == Lower(rawSize)
             upper == Add(lower, sizeStep)
             frac == Div(Sub(rawSize, lower), sizeStep)
         IN  IF Gt(frac, DeadZone) /\ Le(upper, squareSize)
             THEN <<Centred(r, c, upper, info.fg, frac)>>
             ELSE <<>>
    ELSE <<>>

----------------------------------------------------------------------------
(* Merge compactor: App.tsx:215-285 *)

MergeDigits == 6
Tolerance == Rat(1, 10000)

RECURSIVE Pow10(_)
Pow10(k) == IF k = 0 THEN 1 ELSE 10 * Pow10(k - 1)

\* long division: k more decimal digits of rem/d appended to acc
RECURSIVE Digits(_, _, _, _)
Digits(rem, d, k, acc) ==
    IF k = 0 THEN <<acc, rem>>
    ELSE Digits((rem * 10) % d, d, k - 1, acc * 10 + ((rem * 10) \div d))

\* Math.round(a * 10^k) / 10^k on a finite number: half rounds up
RoundAt(a, k) ==
    LET q == a[1] \div a[2]
        dg == Digits(a[1] % a[2], a[2], k, 0)
        up == IF 2 * dg[2] >= a[2] THEN 1 ELSE 0
    IN  Rat(q * Pow10(k) + dg[1] + up, Pow10(k))

AbsNum(a) == <<Abs(a[1]), a[2]>>

\* the distinct values of a sequence in order of first appearance: the
\* insertion order of the Map's keys
RECURSIVE DistinctFrom(_, _, _)
DistinctFrom(seq, i, acc) ==
    IF i > Len(seq) THEN acc
    ELSE DistinctFrom(seq, i + 1,
            IF \E j \in 1..Len(acc) : acc[j] = seq[i] THEN acc
            ELSE Append(acc, seq[i]))

\* the rects whose key is k, in their order in rects
RECURSIVE GroupFrom(_, _, _, _, _)
GroupFrom(rects, keys, k, i, acc) ==
    IF i > Len(rects) THEN acc
    ELSE GroupFrom(rects, keys, k, i + 1,
            IF keys[i] = k THEN Append(acc, rects[i]) ELSE acc)

RECURSIVE Flatten(_, _, _)
Flatten(seqs, i, acc) ==
    IF i > Len(seqs) THEN acc ELSE Flatten(seqs, i + 1, acc \o seqs[i])

visualKey(r) == <<r.fill, r.opacity, r.shapeRendering>>

\* arr.sort((a, b) => a.y - b.y), stable
RECURSIVE InsertByY(_, _)
InsertByY(sorted, r) ==
    IF sorted = <<>> THEN <<r>>
    ELSE IF Lt(r.y, Head(sorted).y) THEN <<r>> \o sorted
    ELSE <<Head(sorted)>> \o InsertByY(Tail(sorted), r)
RECURSIVE SortByY(_, _, _)
SortByY(arr, i, acc) ==
    IF i > Len(arr) THEN acc ELSE SortByY(arr, i + 1, InsertByY(acc, arr[i]))

\* arr.sort((a, b) => a.x - b.x), stable
RECURSIVE InsertByX(_, _)
InsertByX(sorted, r) ==
    IF sorted = <<>> THEN <<r>>
    ELSE IF Lt(r.x, Head(sorted).x) THEN <<r>> \o sorted
    ELSE <<Head(sorted)>> \o InsertByX(Tail(sorted), r)
RECURSIVE SortByX(_, _, _)
SortByX(arr, i, acc) ==
    IF i > Len(arr) THEN acc ELSE SortByX(arr, i + 1, InsertByX(acc, arr[i]))

\* mutant: the difference compared without its absolute value
TouchesBelowSigned(cur, r) ==
    Lt(Sub(RoundAt(Add(cur.y, cur.h), MergeDigits),
           RoundAt(r.y, MergeDigits)), Tolerance)

\* do cur's bottom edge and r's top edge count as touching
TouchesBelow(cur, r) ==
    Lt(AbsNum(Sub(RoundAt(Add(cur.y, cur.h), MergeDigits),
                  RoundAt(r.y, MergeDigits))), Tolerance)

\* do cur's right edge and r's left edge count as touching
TouchesRight(cur, r) ==
    Lt(AbsNum(Sub(RoundAt(Add(cur.x, cur.w), MergeDigits),
                  RoundAt(r.x, MergeDigits))), Tolerance)

\* the scan of one sorted group, from element i with accumulator cur
RECURSIVE RunVertical(_, _, _, _)
RunVertical(arr, i, cur, out) ==
    IF i > Len(arr) THEN Append(out, cur)
    ELSE IF TouchesBelow(cur, arr[i])
    THEN RunVertical(arr, i + 1, [cur EXCEPT !.h = Add(cur.h, arr[i].h)], out)
    ELSE RunVertical(arr, i + 1, arr[i], Append(out, cur))

RECURSIVE RunHorizontal(_, _, _, _)
RunHorizontal(arr, i, cur, out) ==
    IF i > Len(arr) THEN Append(out, cur)
    ELSE IF TouchesRight(cur, arr[i])
    THEN RunHorizontal(arr, i + 1, [cur EXCEPT !.w = Add(cur.w, arr[i].w)], out)
    ELSE RunHorizontal(arr, i + 1, arr[i], Append(out, cur))

\* the runs of every group, the groups in the order of their first rect
VerticalRuns(rects, keys, order) ==
    Flatten([g \in 1..Len(order) |->
                Only({RunVertical(arr, 2, arr[1], <<>>) :
                        arr \in {SortByY(GroupFrom(rects, keys, order[g], 1, <<>>),
                                         1, <<>>)}})],
            1, <<>>)

mergeVertically(rects) ==
    Only({Only({VerticalRuns(rs, keys, order) :
                   order \in {DistinctFrom(keys, 1, <<>>)}}) :
             rs \in {rects},
             keys \in {[i \in 1..Len(rects) |->
                          <<visualKey(rects[i]), rects[i].x, rects[i].w>>]}})

HorizontalRuns(rects, keys, order) ==
    Flatten([g \in 1..Len(order) |->
                Only({RunHorizontal(arr, 2, arr[1], <<>>) :
                        arr \in {SortByX(GroupFrom(rects, keys, order[g], 1, <<>>),
                                         1, <<>>)}})],
            1, <<>>)

mergeHorizontally(rects) ==
    Only({Only({HorizontalRuns(rs, keys, order) :
                   order \in {DistinctFrom(keys, 1, <<>>)}}) :
             rs \in {rects},
             keys \in {[i \in 1..Len(rects) |->
                          <<visualKey(rects[i]), rects[i].y, rects[i].h>>]}})

\* mutant: the horizontal pass left out
MergeLayerVerticalOnly(layer) == mergeVertically(layer)

MergeLayer(layer) == mergeHorizontally(mergeVertically(layer))

----------------------------------------------------------------------------
(* Serializer: App.tsx:287-303 *)

FmtDigits == 2
OpacityDigits == 3
NoAttr == <<>>

\* fmtNum: the number a coordinate is printed as
fmtNum(n) == RoundAt(n, FmtDigits)

\* one <rect .../> of the document: its attributes, NoAttr for one left out
Element(r) ==
    [x |-> fmtNum(r.x), y |-> fmtNum(r.y),
     width |-> fmtNum(r.w), height |-> fmtNum(r.h), fill |-> r.fill,
     opacity |-> IF r.opacity # NoOpacity THEN RoundAt(r.opacity, OpacityDigits)
                 ELSE NoAttr,
     shapeRendering |-> IF r.shapeRendering # "" THEN r.shapeRendering ELSE ""]

BackgroundElement ==
    [x |-> NoAttr, y |-> NoAttr, width |-> width, height |-> height,
     fill |-> bgColor, opacity |-> NoAttr, shapeRendering |-> ""]

----------------------------------------------------------------------------
(* The call as a function of its stop list: App.tsx:79-304 *)

\* the rectangles the two loops push on a layer ("bg", "solid" or "alpha")
\* from cell (r, c) on, in loop order
RECURSIVE LayerFrom(_, _, _, _)
LayerFrom(which, sorted, r, c) ==
    IF ~Lt(Num(r), rows) THEN <<>>
    ELSE IF ~Lt(Num(c), cols) THEN LayerFrom(which, sorted, r + 1, 0)
    ELSE Only({(IF which = "bg" THEN BgRects(r, c, info)
                ELSE IF which = "solid" THEN FgSolidRects(r, c, info)
                ELSE FgAlphaRects(r, c, info)) \o rest :
                  info \in {getCellInfo(sorted, bgColor, AxisPercent(r, c))},
                  rest \in {LayerFrom(which, sorted, r, c + 1)}})

\* the element list of the document returned for the stop list ss, the
\* other arguments being those of the call
generateGradientSVG(ss) ==
    Only({<<BackgroundElement>> \o [i \in 1..Len(merged) |-> Element(merged[i])] :
            merged \in {Only({IF mergeRects
                               THEN MergeLayer(bg) \o MergeLayer(solid) \o MergeLayer(alpha)
                               ELSE bg \o solid \o alpha :
                                  bg \in {LayerFrom("bg", sorted, 0, 0)},
                                  solid \in {LayerFrom("solid", sorted, 0, 0)},
                                  alpha \in {LayerFrom("alpha", sorted, 0, 0)}}) :
                            sorted \in {sortedStops(ss)}}})

----------------------------------------------------------------------------
(* URL codec: App.tsx:19-68 and 371-386 *)

\* A JSON text is written as the tree it denotes, <<tag, content>>.  The
\* literal of a number is the number it denotes; <<1,0>> and <<-1,0>> are
\* literals beyond the range of a double, such as 1e999 and -1e999.
JNull == <<"null", "">>
JNum(lit) == <<"num", lit>>
JStr(str) == <<"str", str>>
JBool(b) == <<"bool", b>>
JArr(seq) == <<"arr", seq>>
JObj(f) == <<"obj", f>>
\* a text that JSON.parse rejects
Malformed == <<"malformed", "">>
\* decoded.width when decoded has no such property
Undefined == <<"undefined", "">>

\* encoder.encode(text), and btoa of the bytes: the parameter's value
Utf8(text) == <<"utf8", text>>
Base64(bytes) == <<"base64", bytes>>
\* a parameter that is present and empty, and one that atob rejects
EmptyParam == <<"empty", "">>
NotBase64 == <<"notbase64", "">>

\* JSON.stringify of a number: a number that is not finite is written null
StringifyNumber(n) == IF IsFinite(n) THEN JNum(n) ELSE JNull

StringifyStop(s) ==
    JObj([position |-> StringifyNumber(s.position), color |-> JStr(s.color),
          isLargeEnd |-> JBool(s.isLargeEnd)])

\* JSON.stringify(state)
Stringify(state) ==
    JObj([width |-> StringifyNumber(state.width),
          height |-> StringifyNumber(state.height),
          squareSize |-> StringifyNumber(state.squareSize),
          sizeStep |-> StringifyNumber(state.sizeStep),
          stops |-> JArr([i \in 1..Len(state.stops) |->
                             StringifyStop(state.stops[i])]),
          bgColor |-> JStr(state.bgColor),
          angle |-> StringifyNumber(state.angle),
          mergeRects |-> JBool(state.mergeRects)])

\* the 'config' parameter the URL sync effect writes for state
Encode(state) == Base64(Utf8(Stringify(state)))

\* the number JSON.parse reads from a literal
ParseNumber(lit) ==
    IF lit[2] # 0 THEN lit
    ELSE IF lit[1] > 0 THEN Infinity ELSE NegInfinity

\* the array JSON.parse reads: its elements are stop objects
ParseStops(seq) ==
    [i \in 1..Len(seq) |->
        [position |-> ParseNumber(seq[i][2].position[2]),
         color |-> seq[i][2].color[2],
         isLargeEnd |-> seq[i][2].isLargeEnd[2]]]

\* decoded[name]
Field(decoded, name) ==
    IF decoded[1] = "obj" /\ name \in DOMAIN decoded[2]
    THEN decoded[2][name] ELSE Undefined

DEFAULT_STOPS ==
    <<Stop(Num(0), "#1a1a6e", TRUE), Stop(Num(50), "#c0c0c0", FALSE),
      Stop(Num(50), "#c0c0c0", FALSE), Stop(Num(100), "#6e1a1a", TRUE)>>

defaults ==
    [width |-> Num(400), height |-> Num(80), squareSize |-> Num(8),
     sizeStep |-> One, stops |-> DEFAULT_STOPS, bgColor |-> "#00000000",
     angle |-> Num(90), mergeRects |-> TRUE]

\* the object returned when the decoded value is an object
FromDecoded(decoded) ==
    [width |-> IF Field(decoded, "width")[1] = "num"
               THEN ParseNumber(Field(decoded, "width")[2]) ELSE defaults.width,
     height |-> IF Field(decoded, "height")[1] = "num"
                THEN ParseNumber(Field(decoded, "height")[2]) ELSE defaults.height,
     squareSize |-> IF Field(decoded, "squareSize")[1] = "num"
                    THEN ParseNumber(Field(decoded, "squareSize")[2])
                    ELSE defaults.squareSize,
     sizeStep |-> IF Field(decoded, "sizeStep")[1] = "num"
                  THEN ParseNumber(Field(decoded, "sizeStep")[2])
                  ELSE defaults.sizeStep,
     stops |-> IF Field(decoded, "stops")[1] = "arr"
               THEN ParseStops(Field(decoded, "stops")[2]) ELSE defaults.stops,
     bgColor |-> IF Field(decoded, "bgColor")[1] = "str"
                 THEN Field(decoded, "bgColor")[2] ELSE defaults.bgColor,
     angle |-> IF Field(decoded, "angle")[1] = "num"
               THEN ParseNumber(Field(decoded, "angle")[2]) ELSE defaults.angle,
     mergeRects |-> IF Field(decoded, "mergeRects")[1] = "bool"
                    THEN Field(decoded, "mergeRects")[2] ELSE defaults.mergeRects]

\* the typeof (Array.isArray for stops) each field is tested for
Wanted ==
    [width |-> "num", height |-> "num", squareSize |-> "num",
     sizeStep |-> "num", stops |-> "arr", bgColor |-> "str", angle |-> "num",
     mergeRects |-> "bool"]

\* mutant: one absent or mismatched field sends every field to its default
getInitialStateStrict(config) ==
    IF config[1] # "base64" THEN defaults
    ELSE IF config[2][2][1] \notin {"obj", "arr"} THEN defaults
    ELSE IF \A f \in DOMAIN Wanted : Field(config[2][2], f)[1] = Wanted[f]
    THEN FromDecoded(config[2][2])
    ELSE defaults

\* getInitialState with params.get('config') = config
getInitialState(config) ==
    IF config[1] \in {"absent", "empty"} THEN defaults
    ELSE IF config[1] # "base64" THEN defaults
    ELSE IF config[2][2][1] = "malformed" THEN defaults
    ELSE IF config[2][2][1] \in {"obj", "arr"} THEN FromDecoded(config[2][2])
    ELSE defaults

----------------------------------------------------------------------------
(* Input domains *)

MaxStops == 3
PercentTicks == 6

Positions == {Num(0), Num(50), Num(100)}
Colors == {"#a", "#b"}
GlobalBg == "#00000000"

StopUniverse == {Stop(p, c, l) : p \in Positions, c \in Colors, l \in BOOLEAN}

\* four stops, the two in the middle at one position: a zero-width segment
\* between two segments of width 50
ZeroWidthLists ==
    {<<Stop(Num(0), "#a", l[1]), Stop(Num(50), "#b", l[2]),
       Stop(Num(50), "#a", l[3]), Stop(Num(100), "#b", l[4])>> :
        l \in [1..4 -> BOOLEAN]}
StopLists ==
    UNION {[1..n -> StopUniverse] : n \in 0..MaxStops} \cup ZeroWidthLists

\* -25, 0, 25, ... : the percentages the resolver is swept over
Percent(k) == Num(25 * k - 25)

----------------------------------------------------------------------------
(* SpecCell: getCellInfo swept over increasing axis percentages *)

NoCell == [fg |-> Null, bg |-> Null, size |-> NaN]

InitCell ==
    /\ width = Zero /\ height = Zero /\ squareSize = One /\ sizeStep = One
    /\ angle = Zero /\ mergeRects = TRUE
    /\ stops \in StopLists
    /\ bgColor = GlobalBg
    /\ xPercent = Percent(0)
    /\ cell = getCellInfo(sortedStops(stops), bgColor, xPercent)
    /\ segIdx = SegIndex(sortedStops(stops), xPercent)
    /\ trail = <<>>
    /\ pc = "idle" /\ row = 0 /\ col = 0
    /\ bgLayer = <<>> /\ fgSolidLayer = <<>> /\ fgAlphaLayer = <<>>
    /\ mergedRects = <<>> /\ elements = <<>>
    /\ url = NoParam /\ invoked = <<>> /\ edits = 0 /\ returned = <<>>

Resolve ==
    /\ \E k \in 1..PercentTicks :
          /\ xPercent = Percent(k - 1)
          /\ xPercent' = Percent(k)
    /\ cell' = getCellInfo(sortedStops(stops), bgColor, xPercent')
    /\ segIdx' = SegIndex(sortedStops(stops), xPercent')
    /\ trail' = Append(trail, <<xPercent, cell, segIdx>>)
    /\ UNCHANGED <<cfgVars, genVars, uiVars>>

NextCell == Resolve

SpecCell == InitCell /\ [][NextCell]_vars

----------------------------------------------------------------------------
(* SpecGen: one call of generateGradientSVG *)

MaxWidth == 6
MaxHeight == 4
MaxGenStops == 2
MaxIter == 8

Angles == {Num(0), Num(90), Num(180), Num(270)}

\* a step that leaves a gap of 0.00008 around a full-size square of side 2
NearStep == Rat(24999, 12500)
GenSteps == {Zero, Rat(3, 4), One, Num(2), NearStep}

GenStopUniverse ==
    {Stop(Num(0), "#a", TRUE), Stop(Num(0), "#b", FALSE),
     Stop(Num(50), "#b", TRUE), Stop(Num(50), "#a", FALSE),
     Stop(Num(100), "#a", TRUE), Stop(Num(100), "#b", FALSE)}

\* three stops with a large-end stop in the middle, after a large-end stop
\* and after a small-end stop, the latter also out of order; a stop whose
\* color is the empty string
LongStopLists ==
    {<<Stop(Num(0), "#a", TRUE), Stop(Num(50), "#b", TRUE), Stop(Num(100), "#b", FALSE)>>,
     <<Stop(Num(0), "#b", FALSE), Stop(Num(50), "#b", TRUE), Stop(Num(100), "#a", TRUE)>>,
     <<Stop(Num(100), "#a", TRUE), Stop(Num(0), "#b", FALSE), Stop(Num(50), "#b", TRUE)>>,
     <<Stop(Num(0), "", TRUE), Stop(Num(100), "#b", FALSE)>>}
GenStopLists ==
    UNION {[1..n -> GenStopUniverse] : n \in 0..MaxGenStops}
        \cup {DEFAULT_STOPS} \cup LongStopLists

InitCall ==
    /\ xPercent = NaN /\ cell = NoCell /\ segIdx = 0 /\ trail = <<>>
    /\ pc = "emit" /\ row = 0 /\ col = 0
    /\ bgLayer = <<>> /\ fgSolidLayer = <<>> /\ fgAlphaLayer = <<>>
    /\ mergedRects = <<>> /\ elements = <<>>
    /\ url = NoParam /\ invoked = <<>> /\ edits = 0 /\ returned = <<>>

\* every canvas up to MaxWidth x MaxHeight, cell sizes 2 and 3, the four
\* axis-aligned angles, under the default stops
InitGeometry ==
    /\ width \in {Num(w) : w \in 0..MaxWidth}
    /\ height \in {Num(h) : h \in 0..MaxHeight}
    /\ squareSize \in {Num(2), Num(3)}
    /\ angle \in Angles
    /\ sizeStep = One
    /\ stops = DEFAULT_STOPS
    /\ bgColor = GlobalBg
    /\ mergeRects = TRUE

\* every stop list, step and merge flag on a 3 x 2 grid, gradient running
\* across and down
InitRender ==
    /\ width = Num(6) /\ height = Num(4) /\ squareSize = Num(2)
    /\ angle \in {Num(90), Num(180)}
    /\ sizeStep \in GenSteps
    /\ stops \in GenStopLists
    /\ bgColor = GlobalBg
    /\ mergeRects \in BOOLEAN

\* a segment that starts 0.5 below the percentage 50 of the middle column
\* and is 32 wide: the middle cells get t = 1/64 and size 95/131072
SliverStops == <<Stop(Rat(99, 2), "#b", FALSE), Stop(Rat(163, 2), "#a", TRUE)>>

InitSliver ==
    /\ width = Num(6) /\ height = Num(4) /\ squareSize = Num(2)
    /\ angle = Num(90)
    /\ sizeStep \in GenSteps \cup {Num(-1)}
    /\ stops = SliverStops
    /\ bgColor = GlobalBg
    /\ mergeRects \in BOOLEAN

\* stop lists for a gradient that runs along a diagonal: the bands of one
\* color are staircases of cells
DiagonalStopLists ==
    {<<Stop(Num(0), "#a", FALSE), Stop(Num(50), "#b", FALSE), Stop(Num(100), "#a", FALSE)>>,
     <<Stop(Num(0), "#a", TRUE), Stop(Num(50), "#b", FALSE), Stop(Num(100), "#b", TRUE)>>,
     DEFAULT_STOPS}

InitDiagonal ==
    /\ \E n \in {<<6, 4>>, <<8, 8>>} : width = Num(n[1]) /\ height = Num(n[2])
    /\ squareSize = Num(2)
    /\ angle \in {Num(45), Num(135)}
    /\ sizeStep \in {One, Num(2)}
    /\ stops \in DiagonalStopLists
    /\ bgColor = GlobalBg
    /\ mergeRects \in BOOLEAN

InitGen == InitCall /\ (InitGeometry \/ InitRender \/ InitSliver \/ InitDiagonal)

\* a loop counter i < n after i++; past MaxIter iterations of a loop whose
\* bound is Infinity only the counter's parity is kept
Bump(i, n) == IF n = Infinity /\ i >= MaxIter THEN MaxIter - 1 ELSE i + 1

\* the body of the inner loop for cell (row, col), then col++
EmitCell ==
    /\ pc = "emit"
    /\ Lt(Num(row), rows)
    /\ Lt(Num(col), cols)
    /\ \E p \in {AxisPercent(row, col)} :
       \E sorted \in {sortedStops(stops)} :
       \E info \in {getCellInfo(sorted, bgColor, p)} :
       LET recorded == row < MaxIter /\ col < MaxIter
       IN  /\ xPercent' = p
           /\ cell' = info
           /\ segIdx' = SegIndex(sorted, p)
           /\ bgLayer' = IF recorded THEN bgLayer \o BgRects(row, col, info)
                         ELSE bgLayer
           /\ fgSolidLayer' = IF recorded
                              THEN fgSolidLayer \o FgSolidRects(row, col, info)
                              ELSE fgSolidLayer
           /\ fgAlphaLayer' = IF recorded
                              THEN fgAlphaLayer \o FgAlphaRects(row, col, info)
                              ELSE fgAlphaLayer
    /\ col' = Bump(col, cols)
    /\ UNCHANGED <<cfgVars, uiVars, trail, pc, row, mergedRects, elements>>

\* the inner loop ends: row++
NextRow ==
    /\ pc = "emit"
    /\ Lt(Num(row), rows)
    /\ ~Lt(Num(col), cols)
    /\ row' = Bump(row, rows)
    /\ col' = 0
    /\ UNCHANGED <<cfgVars, uiVars, xPercent, cell, segIdx, trail, pc,
                   bgLayer, fgSolidLayer, fgAlphaLayer, mergedRects, elements>>

\* mutant: the solid foreground layer put under the cell backgrounds
MergeSolidFirst ==
    /\ pc = "emit"
    /\ ~Lt(Num(row), rows)
    /\ mergedRects' =
          IF mergeRects
          THEN MergeLayer(fgSolidLayer) \o MergeLayer(bgLayer) \o MergeLayer(fgAlphaLayer)
          ELSE fgSolidLayer \o bgLayer \o fgAlphaLayer
    /\ pc' = "serialize"
    /\ UNCHANGED <<cfgVars, uiVars, xPercent, cell, segIdx, trail, row, col,
                   bgLayer, fgSolidLayer, fgAlphaLayer, elements>>

\* the outer loop ends: rawRects and mergedRects
Merge ==
    /\ pc = "emit"
    /\ ~Lt(Num(row), rows)
    /\ mergedRects' =
          IF mergeRects
          THEN MergeLayer(bgLayer) \o MergeLayer(fgSolidLayer) \o MergeLayer(fgAlphaLayer)
          ELSE bgLayer \o fgSolidLayer \o fgAlphaLayer
    /\ pc' = "serialize"
    /\ UNCHANGED <<cfgVars, uiVars, xPercent, cell, segIdx, trail, row, col,
                   bgLayer, fgSolidLayer, fgAlphaLayer, elements>>

\* the element list of the returned document
Serialize ==
    /\ pc = "serialize"
    /\ elements' = <<BackgroundElement>> \o
                     [i \in 1..Len(mergedRects) |-> Element(mergedRects[i])]
    /\ pc' = "done"
    /\ UNCHANGED <<cfgVars, uiVars, xPercent, cell, segIdx, trail, row, col,
                   bgLayer, fgSolidLayer, fgAlphaLayer, mergedRects>>

NextGen == EmitCell \/ NextRow \/ Merge \/ Serialize

SpecGen == InitGen /\ [][NextGen]_vars

\* Calls with an empty canvas, an empty stop list or a zero cell size.  The
\* call is one synchronous run of the JavaScript engine: it keeps taking
\* steps while it has one to take.
InitLoop ==
    /\ width \in {Zero, Num(4)}
    /\ height \in {Zero, Num(4)}
    /\ squareSize \in {Zero, Num(2)}
    /\ angle \in Angles
    /\ sizeStep = One
    /\ stops \in {<<>>, DEFAULT_STOPS}
    /\ bgColor = GlobalBg
    /\ mergeRects \in BOOLEAN

InitFair == InitCall /\ InitLoop

FairSpecGen == InitFair /\ [][NextGen]_vars /\ WF_vars(NextGen)

----------------------------------------------------------------------------
(* SpecCalls: calls of generateGradientSVG one after another *)

MaxCalls == 2

\* the arguments of the call, in the order of the parameter list
Arguments ==
    <<width, height, squareSize, stops, bgColor, sizeStep, angle, mergeRects>>

CallStopLists ==
    {DEFAULT_STOPS, <<Stop(Num(0), "#a", TRUE), Stop(Num(100), "#b", FALSE)>>}

\* the arguments the calls are made with
CallArguments ==
    {<<Num(6), Num(4), Num(2), ss, GlobalBg, step, Num(90), TRUE>> :
        ss \in CallStopLists, step \in {Rat(3, 4), Num(2)}}

InitCalls ==
    /\ InitCall
    /\ \E a \in CallArguments :
          /\ width = a[1] /\ height = a[2] /\ squareSize = a[3] /\ stops = a[4]
          /\ bgColor = a[5] /\ sizeStep = a[6] /\ angle = a[7] /\ mergeRects = a[8]

\* mutant: the cell background layer kept from one call to the next
CallAgainKeepingLayer ==
    /\ pc = "done"
    /\ Len(returned) < MaxCalls
    /\ returned' = Append(returned, <<Arguments, elements>>)
    /\ \E a \in CallArguments :
          /\ width' = a[1] /\ height' = a[2] /\ squareSize' = a[3] /\ stops' = a[4]
          /\ bgColor' = a[5] /\ sizeStep' = a[6] /\ angle' = a[7] /\ mergeRects' = a[8]
    /\ xPercent' = NaN /\ cell' = NoCell /\ segIdx' = 0
    /\ pc' = "emit" /\ row' = 0 /\ col' = 0
    /\ bgLayer' = bgLayer /\ fgSolidLayer' = <<>> /\ fgAlphaLayer' = <<>>
    /\ mergedRects' = <<>> /\ elements' = <<>>
    /\ UNCHANGED <<url, invoked, edits, trail>>

\* the call has returned and the next one starts: every local of the
\* function is created anew (App.tsx:80-170)
CallAgain ==
    /\ pc = "done"
    /\ Len(returned) < MaxCalls
    /\ returned' = Append(returned, <<Arguments, elements>>)
    /\ \E a \in CallArguments :
          /\ width' = a[1] /\ height' = a[2] /\ squareSize' = a[3] /\ stops' = a[4]
          /\ bgColor' = a[5] /\ sizeStep' = a[6] /\ angle' = a[7] /\ mergeRects' = a[8]
    /\ xPercent' = NaN /\ cell' = NoCell /\ segIdx' = 0
    /\ pc' = "emit" /\ row' = 0 /\ col' = 0
    /\ bgLayer' = <<>> /\ fgSolidLayer' = <<>> /\ fgAlphaLayer' = <<>>
    /\ mergedRects' = <<>> /\ elements' = <<>>
    /\ UNCHANGED <<url, invoked, edits, trail>>

NextCalls == NextGen \/ CallAgain

SpecCalls == InitCalls /\ [][NextCalls]_vars

----------------------------------------------------------------------------
(* Spec: the App component *)

MaxEdits == 2

\* a configuration whose every field differs from its default
GoodObject ==
    [width |-> JNum(Num(16)), height |-> JNum(Num(12)),
     squareSize |-> JNum(Num(4)), sizeStep |-> JNum(Rat(1, 2)),
     stops |-> JArr(<<StringifyStop(Stop(Num(0), "#a", TRUE)),
                      StringifyStop(Stop(Num(50), "#b", FALSE)),
                      StringifyStop(Stop(Num(100), "#a", TRUE))>>),
     bgColor |-> JStr("#fff"), angle |-> JNum(Num(45)),
     mergeRects |-> JBool(FALSE)]

\* a value of another type than the field is tested for
BadValue(f) == IF Wanted[f] = "str" THEN JNum(Num(7)) ELSE JStr("7")

NumberFields == {f \in DOMAIN Wanted : Wanted[f] = "num"}

\* the JSON texts a 'config' parameter is loaded from: the full object; one
\* field mismatched, null, absent or alone; a number field 0 or beyond the
\* range of a double; every field mismatched; texts that are no object; a
\* malformed text
Texts ==
    {GoodObject, [f \in DOMAIN Wanted |-> BadValue(f)], <<>>}
    \cup {[GoodObject EXCEPT ![f] = BadValue(f)] : f \in DOMAIN Wanted}
    \cup {[GoodObject EXCEPT ![f] = JNull] : f \in DOMAIN Wanted}
    \cup {[g \in DOMAIN Wanted \ {f} |-> GoodObject[g]] : f \in DOMAIN Wanted}
    \cup {[g \in {f} |-> GoodObject[g]] : f \in DOMAIN Wanted}
    \cup {[GoodObject EXCEPT ![f] = JNum(Zero)] : f \in NumberFields}
    \cup {[GoodObject EXCEPT ![f] = JNum(Infinity)] : f \in NumberFields}

UrlInputs ==
    {NoParam, EmptyParam, NotBase64, Base64(Utf8(Malformed)),
     Base64(Utf8(JNull)), Base64(Utf8(JNum(Num(5)))), Base64(Utf8(JStr("x"))),
     Base64(Utf8(JBool(TRUE))), Base64(Utf8(JArr(<<>>)))}
    \cup {Base64(Utf8(JObj(t))) : t \in Texts}

\* Number(e.target.value) of a number input: the number typed, 0 for an
\* empty box; the min and max of the input do not change it
Typed == {Zero, Num(16)}
TypedText == {"", "#fff"}

\* the current values of the eight hooks
State ==
    [width |-> width, height |-> height, squareSize |-> squareSize,
     sizeStep |-> sizeStep, stops |-> stops, bgColor |-> bgColor,
     angle |-> angle, mergeRects |-> mergeRects]

\* useState(initialState.x) for the eight hooks
Mount(initialState) ==
    /\ width = initialState.width /\ height = initialState.height
    /\ squareSize = initialState.squareSize /\ sizeStep = initialState.sizeStep
    /\ stops = initialState.stops /\ bgColor = initialState.bgColor
    /\ angle = initialState.angle /\ mergeRects = initialState.mergeRects

\* the page has loaded with some 'config' parameter and not rendered yet
Init ==
    /\ url \in UrlInputs
    /\ Mount(getInitialState(url))
    /\ pc = "render" /\ invoked = <<>> /\ edits = 0 /\ returned = <<>>
    /\ xPercent = NaN /\ cell = NoCell /\ segIdx = 0 /\ trail = <<>>
    /\ row = 0 /\ col = 0
    /\ bgLayer = <<>> /\ fgSolidLayer = <<>> /\ fgAlphaLayer = <<>>
    /\ mergedRects = <<>> /\ elements = <<>>

idleVars == <<xPercent, cell, segIdx, trail, row, col,
              bgLayer, fgSolidLayer, fgAlphaLayer, mergedRects, elements, returned>>

\* a render: useMemo calls generateGradientSVG with the current state
\* (the call itself is SpecGen)
Render ==
    /\ pc = "render"
    /\ invoked' = <<State>>
    /\ pc' = "effect"
    /\ UNCHANGED <<cfgVars, idleVars, url, edits>>

\* the URL sync effect, after the render that changed a dependency
SyncEffect ==
    /\ pc = "effect"
    /\ url' = Encode(State)
    /\ pc' = "idle"
    /\ UNCHANGED <<cfgVars, idleVars, invoked, edits>>

\* after a setter: React renders again unless the value is the one it held
AfterSet(changed) ==
    /\ pc = "idle"
    /\ edits < MaxEdits
    /\ edits' = edits + 1
    /\ pc' = IF changed THEN "render" ELSE "idle"
    /\ UNCHANGED <<idleVars, url, invoked>>

setWidth ==
    \E v \in Typed :
        /\ width' = v
        /\ AfterSet(v # width)
        /\ UNCHANGED <<height, squareSize, sizeStep, stops, bgColor, angle, mergeRects>>

setHeight ==
    \E v \in Typed :
        /\ height' = v
        /\ AfterSet(v # height)
        /\ UNCHANGED <<width, squareSize, sizeStep, stops, bgColor, angle, mergeRects>>

setSquareSize ==
    \E v \in Typed :
        /\ squareSize' = v
        /\ AfterSet(v # squareSize)
        /\ UNCHANGED <<width, height, sizeStep, stops, bgColor, angle, mergeRects>>

setSizeStep ==
    \E v \in Typed :
        /\ sizeStep' = v
        /\ AfterSet(v # sizeStep)
        /\ UNCHANGED <<width, height, squareSize, stops, bgColor, angle, mergeRects>>

setAngle ==
    \E v \in Typed :
        /\ angle' = v
        /\ AfterSet(v # angle)
        /\ UNCHANGED <<width, height, squareSize, sizeStep, stops, bgColor, mergeRects>>

setBgColor ==
    \E v \in TypedText :
        /\ bgColor' = v
        /\ AfterSet(v # bgColor)
        /\ UNCHANGED <<width, height, squareSize, sizeStep, stops, angle, mergeRects>>

\* the checkbox: e.target.checked is the opposite of what it showed
setMergeRects ==
    /\ mergeRects' = ~mergeRects
    /\ AfterSet(TRUE)
    /\ UNCHANGED <<width, height, squareSize, sizeStep, stops, bgColor, angle>>

addStop ==
    /\ stops' = Append(stops, Stop(Num(50), "#333333", FALSE))
    /\ AfterSet(TRUE)
    /\ UNCHANGED <<width, height, squareSize, sizeStep, bgColor, angle, mergeRects>>

\* one control of the StopEditor of stop index changed
updateStop ==
    \E index \in 1..Len(stops) :
    \E newStop \in {[stops[index] EXCEPT !.position = v] : v \in Typed}
                   \cup {[stops[index] EXCEPT !.color = v] : v \in TypedText}
                   \cup {[stops[index] EXCEPT !.isLargeEnd = ~stops[index].isLargeEnd]} :
        /\ stops' = [stops EXCEPT ![index] = newStop]
        /\ AfterSet(TRUE)
        /\ UNCHANGED <<width, height, squareSize, sizeStep, bgColor, angle, mergeRects>>

\* the remove button is there when canRemove
removeStop ==
    \E index \in 1..Len(stops) :
        /\ Len(stops) > 2
        /\ stops' = [i \in 1..(Len(stops) - 1) |->
                        IF i < index THEN stops[i] ELSE stops[i + 1]]
        /\ AfterSet(TRUE)
        /\ UNCHANGED <<width, height, squareSize, sizeStep, bgColor, angle, mergeRects>>

\* A remove button of the view on screen, clicked while the render after an
\* earlier setter is still pending: the view is that of the last render
\* (canRemove was computed from its stops), the updater filters the list of
\* the pending state.  An index beyond that list removes nothing.
removeStopPending ==
    /\ pc = "render"
    /\ invoked # <<>>
    /\ edits < MaxEdits
    /\ \E view \in {invoked[1].stops} :
       \E index \in 1..Len(view) :
          /\ Len(view) > 2
          /\ stops' = IF index > Len(stops) THEN stops
                       ELSE [i \in 1..(Len(stops) - 1) |->
                               IF i < index THEN stops[i] ELSE stops[i + 1]]
    /\ edits' = edits + 1
    /\ UNCHANGED <<width, height, squareSize, sizeStep, bgColor, angle, mergeRects,
                   idleVars, url, invoked, pc>>

\* the page is loaded again from the URL it shows
Reload ==
    /\ pc = "idle"
    /\ width' = getInitialState(url).width
    /\ height' = getInitialState(url).height
    /\ squareSize' = getInitialState(url).squareSize
    /\ sizeStep' = getInitialState(url).sizeStep
    /\ stops' = getInitialState(url).stops
    /\ bgColor' = getInitialState(url).bgColor
    /\ angle' = getInitialState(url).angle
    /\ mergeRects' = getInitialState(url).mergeRects
    /\ pc' = "render"
    /\ invoked' = <<>>
    /\ UNCHANGED <<idleVars, url, edits>>

Next ==
    \/ Render \/ SyncEffect
    \/ setWidth \/ setHeight \/ setSquareSize \/ setSizeStep \/ setAngle
    \/ setBgColor \/ setMergeRects
    \/ addStop \/ updateStop \/ removeStop \/ removeStopPending
    \/ Reload

Spec == Init /\ [][Next]_vars

----------------------------------------------------------------------------
(* Claims about generateGradientSVG (SpecGen, FairSpecGen) *)

\* the numbers of a set in increasing order
RECURSIVE SortedNums(_)
SortedNums(S) ==
    IF S = {} THEN <<>>
    ELSE LET m == CHOOSE x \in S : \A y \in S : Le(x, y)
         IN  <<m>> \o SortedNums(S \ {m})

\* the midpoints between neighbouring numbers of a set
Midpoints(S) ==
    LET e == SortedNums(S)
    IN  {Half(Add(e[i], e[i + 1])) : i \in 1..(Len(e) - 1)}

RectsOf(seq) == {seq[i] : i \in 1..Len(seq)}

\* how many rects of seq with visual key k have the point (px, py) inside
CoverCount(seq, k, px, py) ==
    Cardinality({i \in 1..Len(seq) :
        /\ visualKey(seq[i]) = k
        /\ Lt(seq[i].x, px) /\ Lt(px, Add(seq[i].x, seq[i].w))
        /\ Lt(seq[i].y, py) /\ Lt(py, Add(seq[i].y, seq[i].h))})

\* raw and merged cover the same points, each point as often and with the
\* same fill, opacity and shape-rendering: compared at one point inside
\* every cell of the grid drawn by all edges of both lists
SameCover(raw, merged) ==
    LET all == RectsOf(raw) \cup RectsOf(merged)
        xs == Midpoints({r.x : r \in all} \cup {Add(r.x, r.w) : r \in all})
        ys == Midpoints({r.y : r \in all} \cup {Add(r.y, r.h) : r \in all})
    IN  \A k \in {visualKey(r) : r \in all} : \A px \in xs : \A py \in ys :
            CoverCount(raw, k, px, py) = CoverCount(merged, k, px, py)

Emitted == pc \in {"serialize", "done"}

\* C1 as claimed: for every input, each merged layer covers exactly the
\* points of its unmerged layer, with the same attributes and as often.
C1_MergeSameCover ==
    Emitted =>
        /\ SameCover(bgLayer, MergeLayer(bgLayer))
        /\ SameCover(fgSolidLayer, MergeLayer(fgSolidLayer))
        /\ SameCover(fgAlphaLayer, MergeLayer(fgAlphaLayer))

\* every foreground square fills its cell or stays at least the merge
\* tolerance short of it, and a cell is at least the tolerance wide
GapsClear ==
    /\ Ge(squareSize, Tolerance)
    /\ \A r \in RectsOf(fgSolidLayer) \cup RectsOf(fgAlphaLayer) :
          r.w = squareSize \/ Le(r.w, Sub(squareSize, Tolerance))

\* C1 amended: when no foreground square leaves a gap to its cell's edge
\* that is positive and below the merge tolerance 1e-4 (and squareSize is at
\* least 1e-4), each merged layer covers exactly the points of its unmerged
\* layer, with the same attributes and as often.
C1_MergeSameCoverApart ==
    (Emitted /\ GapsClear) =>
        /\ SameCover(bgLayer, MergeLayer(bgLayer))
        /\ SameCover(fgSolidLayer, MergeLayer(fgSolidLayer))
        /\ SameCover(fgAlphaLayer, MergeLayer(fgAlphaLayer))

\* a call whose merge joined rectangles of two layers
C1_Witness ==
    /\ pc = "done" /\ mergeRects /\ GapsClear
    /\ Len(bgLayer) >= 4 /\ Len(MergeLayer(bgLayer)) < Len(bgLayer)
    /\ Len(fgSolidLayer) >= 4
    /\ Len(MergeLayer(fgSolidLayer)) < Len(fgSolidLayer)
    /\ Len(fgAlphaLayer) >= 1
    /\ mergedRects = MergeLayer(bgLayer) \o MergeLayer(fgSolidLayer)
                       \o MergeLayer(fgAlphaLayer)

\* the cell EmitCell has just visited is (row, col - 1)
JustVisited == pc = "emit" /\ col > 0
VisitedCx == Add(Mul(Num(col - 1), squareSize), Half(squareSize))
VisitedCy == Add(Mul(Num(row), squareSize), Half(squareSize))
InRange(p) == Le(Zero, p) /\ Le(p, Num(100))
IsMultiple(a, b) == Div(a, b) = Floor(Div(a, b))

\* C5 as claimed: the axis percentage of every visited cell is in [0,100].
C5_PercentInRange == JustVisited => InRange(xPercent)

\* C5 amended: the axis percentage of a visited cell is in [0,100] when the
\* cell's centre lies on the canvas, which it does for every visited cell
\* when width and height are multiples of squareSize.
C5_PercentInRangeOnCanvas ==
    JustVisited =>
        /\ (Le(VisitedCx, width) /\ Le(VisitedCy, height)) => InRange(xPercent)
        /\ (IsMultiple(width, squareSize) /\ IsMultiple(height, squareSize))
              => (Le(VisitedCx, width) /\ Le(VisitedCy, height))

\* a canvas that is no multiple of the cell size, a cell of its last column
\* whose centre is on it, the axis reversed
C5_Witness ==
    /\ JustVisited
    /\ width = Num(5) /\ squareSize = Num(3) /\ angle = Num(270)
    /\ col = 2
    /\ Le(VisitedCx, width) /\ Le(VisitedCy, height)
    /\ xPercent = Num(10)

\* C7: every call runs to completion.
C7_RunsToCompletion == <>(pc = "done")

----------------------------------------------------------------------------
(* Claims about the App component (Spec) *)

Between(lo, n, hi) == Le(lo, n) /\ Le(n, hi)

\* C6: every call of generateGradientSVG has width and height in 10..2000,
\* squareSize in 2..64, sizeStep in 0.1..squareSize and angle in 0..359.
C6_CoreArgsInDeclaredRanges ==
    \A i \in 1..Len(invoked) :
        /\ Between(Num(10), invoked[i].width, Num(2000))
        /\ Between(Num(10), invoked[i].height, Num(2000))
        /\ Between(Num(2), invoked[i].squareSize, Num(64))
        /\ Between(Rat(1, 10), invoked[i].sizeStep, invoked[i].squareSize)
        /\ Between(Zero, invoked[i].angle, Num(359))

\* C8: encoding the configuration the page holds as the URL sync effect
\* does and decoding the result with getInitialState gives that
\* configuration back, field for field.
C8_RoundTrip == getInitialState(Encode(State)) = State

\* the text of the 'config' parameter when it decodes to a JSON text
Decoded ==
    IF url[1] = "base64" /\ url[2][2][1] # "malformed"
    THEN url[2][2] ELSE Undefined

\* the value a field of the decoded object stands for
ValueOf(j) ==
    IF j[1] = "num" THEN ParseNumber(j[2])
    ELSE IF j[1] = "arr" THEN ParseStops(j[2])
    ELSE j[2]

\* C9: right after a load, when the parameter is absent, no base64, no JSON
\* or no object, the state is the default configuration; otherwise each
\* field is the decoded value when that field has the expected type and its
\* own default when it is absent or of another type, whatever the other
\* fields are.
C9_FieldwiseFallback ==
    Len(invoked) = 0 =>
        IF Decoded[1] # "obj" THEN State = defaults
        ELSE \A f \in DOMAIN Wanted :
                State[f] = IF f \in DOMAIN Decoded[2] /\ Decoded[2][f][1] = Wanted[f]
                           THEN ValueOf(Decoded[2][f])
                           ELSE defaults[f]

\* a load from an object whose squareSize alone is mismatched: squareSize
\* is its default, the other seven fields are the decoded ones
C9_Witness ==
    /\ Len(invoked) = 0
    /\ url = Base64(Utf8(JObj([GoodObject EXCEPT !.squareSize = JStr("7")])))
    /\ squareSize = Num(8)
    /\ width = Num(16) /\ height = Num(12) /\ sizeStep = Rat(1, 2)
    /\ Len(stops) = 3 /\ bgColor = "#fff" /\ angle = Num(45) /\ ~mergeRects

----------------------------------------------------------------------------
(* Claims about the cell resolver (SpecCell) *)

\* The stop that the stable sort puts first / last, read off the caller's
\* list: least position and, among equals, least index; greatest position
\* and, among equals, greatest index
FirstByPosition(ss) ==
    ss[CHOOSE i \in 1..Len(ss) : \A j \in 1..Len(ss) :
          \/ Lt(ss[i].position, ss[j].position)
          \/ (ss[i].position = ss[j].position /\ i <= j)]
LastByPosition(ss) ==
    ss[CHOOSE i \in 1..Len(ss) : \A j \in 1..Len(ss) :
          \/ Lt(ss[j].position, ss[i].position)
          \/ (ss[i].position = ss[j].position /\ j <= i)]

StopAlone(s) ==
    IF s.isLargeEnd
    THEN [fg |-> s.color, bg |-> bgColor, size |-> One]
    ELSE [fg |-> Null, bg |-> s.color, size |-> Zero]

\* C2: with a non-empty stop list, a percentage at or before the first sorted
\* stop's position resolves from that stop alone, and one at or after the last
\* sorted stop's position (and not at or before the first) from the last stop
\* alone: large end -> its color over the global background at size 1,
\* otherwise no foreground, its color as background, size 0.
C2_BoundaryRule ==
    Len(stops) > 0 =>
        /\ Le(xPercent, FirstByPosition(stops).position)
              => cell = StopAlone(FirstByPosition(stops))
        /\ (/\ ~Le(xPercent, FirstByPosition(stops).position)
            /\ Ge(xPercent, LastByPosition(stops).position))
              => cell = StopAlone(LastByPosition(stops))

\* a three-stop list in caller order 100, 0, 50 resolved beyond its last stop
C2_Witness ==
    /\ Len(stops) = 3
    /\ stops[1].position = Num(100) /\ stops[2].position = Num(0)
    /\ stops[3].position = Num(50)
    /\ stops[1].isLargeEnd /\ stops[1].color = "#b" /\ stops[2].color = "#a"
    /\ xPercent = Num(125)
    /\ cell = [fg |-> "#b", bg |-> bgColor, size |-> One]

\* C3: the size is always in [0,1]; and for every earlier sample p1 <= xPercent
\* that resolved to the same segment as xPercent, size(p1) >= size(xPercent)
\* when the segment has largeAtStart = true and size(p1) <= size(xPercent)
\* when it has largeAtStart = false.
C3_MonotonicSize ==
    /\ Le(Zero, cell.size) /\ Le(cell.size, One)
    /\ \A j \in 1..Len(trail) :
          (segIdx # 0 /\ trail[j][3] = segIdx /\ Le(trail[j][1], xPercent))
          => LET seg == segments(sortedStops(stops))[segIdx]
             IN  /\ seg.largeAtStart = "true" => Ge(trail[j][2].size, cell.size)
                 /\ seg.largeAtStart = "false" => Le(trail[j][2].size, cell.size)

\* two samples inside one shrinking segment, the later one strictly smaller
C3_Witness ==
    /\ segIdx # 0
    /\ segments(sortedStops(stops))[segIdx].largeAtStart = "true"
    /\ \E j \in 1..Len(trail) :
          /\ trail[j][3] = segIdx
          /\ Lt(trail[j][1], xPercent)
          /\ Gt(trail[j][2].size, cell.size)
          /\ Gt(cell.size, Zero)

\* C4: with at least two stops, a percentage equal to the position of some
\* stop resolves to a size that is exactly 0 or exactly 1.
C4_BoundaryExact ==
    (Len(stops) >= 2 /\ \E i \in 1..Len(stops) : stops[i].position = xPercent)
        => cell.size \in {Zero, One}

\* an interior stop resolved through the end of an easing segment (t = 1)
C4_Witness ==
    /\ Len(stops) = 3
    /\ xPercent = Num(50)
    /\ segIdx = 1
    /\ segments(sortedStops(stops))[1].largeAtStart = "false"
    /\ segments(sortedStops(stops))[1].endPct = Num(50)
    /\ cell.size = One

----------------------------------------------------------------------------
(* Claims about the cells of generateGradientSVG *)

\* the visited cell has pushed an opaque square on the solid layer that
\* fills the cell, in the color fill
FullSquare(fill) ==
    /\ fgSolidLayer # <<>>
    /\ \E r \in {fgSolidLayer[Len(fgSolidLayer)]} :
          /\ r.x = Mul(Num(col - 1), squareSize)
          /\ r.y = Mul(Num(row), squareSize)
          /\ r.w = squareSize /\ r.h = squareSize
          /\ r.fill = fill /\ r.opacity = NoOpacity

PairwiseDistinct(ss) ==
    \A i, j \in 1..Len(ss) : i # j => ss[i].position # ss[j].position

ShownAt(sorted, k) ==
    IF 1 < k /\ k < Len(sorted) /\ sorted[k - 1].isLargeEnd
    THEN sorted[k - 1].color
    ELSE sorted[k].color

Reorderings(ss) ==
    {[i \in 1..Len(ss) |-> ss[f[i]]] :
        f \in {g \in [1..Len(ss) -> 1..Len(ss)] :
                  \A i, j \in 1..Len(ss) : i # j => g[i] # g[j]}}

\* C12: for stops with pairwise distinct positions every permutation of the
\* caller's list yields the document the call returned, and no step of the
\* call changes the caller's list.
C12_OrderNotTrusted ==
    /\ [](pc = "done" /\ PairwiseDistinct(stops)
            => \A perm \in Reorderings(stops) :
                  generateGradientSVG(perm) = elements)
    /\ [][stops' = stops]_vars

\* a call that returned rectangles for three distinct stops passed out of
\* order
C12_Witness ==
    /\ pc = "done"
    /\ Len(stops) = 3 /\ PairwiseDistinct(stops)
    /\ stops # sortedStops(stops)
    /\ Len(elements) > 3

\* a step of the inner loop: the body for cell (row, col), then col++
CellStep == pc = "emit" /\ col' = col + 1

Unstepped == Le(sizeStep, Zero) \/ Ge(sizeStep, squareSize)

\* r is a square of side s on the centre of cell (row, col)
CentredSquare(r, s) ==
    /\ r.w = s /\ r.h = s
    /\ Add(r.x, Half(s)) = Add(Mul(Num(col), squareSize), Half(squareSize))
    /\ Add(r.y, Half(s)) = Add(Mul(Num(row), squareSize), Half(squareSize))

\* the step pushes exactly one rectangle on the solid layer: an opaque
\* square of side s in color fill on the cell's centre
PushesSolid(s, fill) ==
    /\ Len(fgSolidLayer') = Len(fgSolidLayer) + 1
    /\ SubSeq(fgSolidLayer', 1, Len(fgSolidLayer)) = fgSolidLayer
    /\ \E r \in {fgSolidLayer'[Len(fgSolidLayer')]} :
          /\ CentredSquare(r, s)
          /\ r.fill = fill /\ r.opacity = NoOpacity

\* C14 as claimed: with sizeStep <= 0 or sizeStep >= squareSize every cell
\* with nonzero size and non-null foreground pushes exactly one foreground
\* rectangle, an opaque square of side squareSize * size, and the
\* fractional-opacity layer stays empty.
C14_UnsteppedOneSquare ==
    [][(CellStep /\ Unstepped) =>
          /\ (cell'.fg # Null /\ cell'.size # Zero)
                => PushesSolid(Mul(squareSize, cell'.size), cell'.fg)
          /\ fgAlphaLayer' = <<>>]_vars

\* C14 amended: with sizeStep <= 0 or sizeStep >= squareSize a cell whose
\* foreground is neither null nor the empty string and whose size is above
\* 0.001 pushes exactly one foreground rectangle, an opaque square of side
\* squareSize * size on the cell's centre; every other cell pushes none;
\* the fractional-opacity layer stays empty.
C14_UnsteppedOneSquareAboveDeadZone ==
    [][(CellStep /\ Unstepped) =>
          /\ IF cell'.fg # Null /\ cell'.fg # "" /\ Gt(cell'.size, Rat(1, 1000))
             THEN PushesSolid(Mul(squareSize, cell'.size), cell'.fg)
             ELSE fgSolidLayer' = fgSolidLayer
          /\ fgAlphaLayer' = <<>>]_vars

\* a cell inside a transition drawn with a step as large as the cell
C14_Witness ==
    /\ JustVisited
    /\ sizeStep = squareSize
    /\ Gt(cell.size, Rat(1, 1000)) /\ Lt(cell.size, One)
    /\ fgSolidLayer # <<>>
    /\ fgSolidLayer[Len(fgSolidLayer)].w = Mul(squareSize, cell.size)
    /\ fgSolidLayer[Len(fgSolidLayer)].x =
          Add(Mul(Num(col - 1), squareSize), Half(Sub(squareSize, Mul(squareSize, cell.size))))

\* the step pushes exactly one rectangle on the fractional layer: a square
\* of side s in color fill with opacity frac on the cell's centre
PushesAlpha(s, fill, frac) ==
    /\ Len(fgAlphaLayer') = Len(fgAlphaLayer) + 1
    /\ SubSeq(fgAlphaLayer', 1, Len(fgAlphaLayer)) = fgAlphaLayer
    /\ \E r \in {fgAlphaLayer'[Len(fgAlphaLayer')]} :
          /\ CentredSquare(r, s)
          /\ r.fill = fill /\ r.opacity = frac

\* what the quantizer does with a cell it draws: lower, upper and frac of
\* rawSize = squareSize * size
Quantized(info) ==
    \E rawSize \in {Mul(squareSize, info.size)} :
    \E lower \in {Mul(Floor(Div(rawSize, sizeStep)), sizeStep)} :
    \E upper \in {Add(lower, sizeStep)} :
    \E frac \in {Div(Sub(rawSize, lower), sizeStep)} :
        /\ IF Gt(lower, Zero) THEN PushesSolid(lower, info.fg)
           ELSE fgSolidLayer' = fgSolidLayer
        /\ IF Gt(frac, Rat(1, 1000)) /\ Le(upper, squareSize)
           THEN PushesAlpha(upper, info.fg, frac)
           ELSE fgAlphaLayer' = fgAlphaLayer

PushesNothing == fgSolidLayer' = fgSolidLayer /\ fgAlphaLayer' = fgAlphaLayer

\* C17 as claimed: with 0 < sizeStep < squareSize a cell with non-null
\* foreground and size > 0.001 pushes an opaque square of side lower iff
\* lower > 0 and a square of side upper with opacity frac iff frac > 0.001
\* and upper <= squareSize, both on the cell's centre; a cell with null
\* foreground or size <= 0.001 pushes no foreground rectangle.
C17_SteppedQuantizer ==
    [][(CellStep /\ Gt(sizeStep, Zero) /\ Lt(sizeStep, squareSize)) =>
          IF cell'.fg # Null /\ Gt(cell'.size, Rat(1, 1000))
          THEN Quantized(cell')
          ELSE PushesNothing]_vars

\* C17 amended: the same for a cell whose foreground is neither null nor
\* the empty string; a cell with null or empty foreground or with
\* size <= 0.001 pushes no foreground rectangle.
C17_SteppedQuantizerColored ==
    [][(CellStep /\ Gt(sizeStep, Zero) /\ Lt(sizeStep, squareSize)) =>
          IF cell'.fg # Null /\ cell'.fg # "" /\ Gt(cell'.size, Rat(1, 1000))
          THEN Quantized(cell')
          ELSE PushesNothing]_vars

\* a half-size cell under a step of 3/4: a solid square of side 3/4 and a
\* square of side 3/2 with opacity 1/3
C17_Witness ==
    /\ JustVisited
    /\ squareSize = Num(2) /\ sizeStep = Rat(3, 4)
    /\ cell.size = Rat(1, 2) /\ cell.fg # Null
    /\ fgSolidLayer # <<>> /\ fgAlphaLayer # <<>>
    /\ \E r \in {fgSolidLayer[Len(fgSolidLayer)]} :
          r.w = Rat(3, 4) /\ Add(r.x, Half(r.w)) = VisitedCx
    /\ \E r \in {fgAlphaLayer[Len(fgAlphaLayer)]} :
          r.w = Rat(3, 2) /\ r.opacity = Rat(1, 3) /\ Add(r.x, Half(r.w)) = VisitedCx

----------------------------------------------------------------------------
(* Claims about the returned document *)

\* the layer an element of the document was drawn from, by its attributes:
\* 0 canvas or cell background, 1 solid foreground, 2 fractional opacity
LayerOf(e) ==
    IF e.shapeRendering = "" THEN 0 ELSE IF e.opacity = NoAttr THEN 1 ELSE 2

Drawn(layer) ==
    Only({[i \in 1..Len(out) |-> Element(out[i])] :
            out \in {IF mergeRects THEN MergeLayer(layer) ELSE layer}})

\* C13: the document starts with the one full-canvas rectangle in the
\* global background color, followed by the rectangles of the cell
\* background layer, then those of the solid foreground layer, then those
\* of the fractional-opacity layer, with merging enabled and disabled; the
\* rectangles of a layer never follow those of a later one.
C13_StackingOrder ==
    pc = "done" =>
        /\ elements[1] = [x |-> NoAttr, y |-> NoAttr, width |-> width,
                          height |-> height, fill |-> bgColor,
                          opacity |-> NoAttr, shapeRendering |-> ""]
        /\ \A i \in 2..Len(elements) : elements[i].x # NoAttr
        /\ \A i, j \in 2..Len(elements) :
              i < j => LayerOf(elements[i]) <= LayerOf(elements[j])
        /\ SubSeq(elements, 2, Len(elements)) =
              Drawn(bgLayer) \o Drawn(fgSolidLayer) \o Drawn(fgAlphaLayer)
        /\ \A i \in 1..Len(bgLayer) : LayerOf(Element(bgLayer[i])) = 0
        /\ \A i \in 1..Len(fgSolidLayer) : LayerOf(Element(fgSolidLayer[i])) = 1
        /\ \A i \in 1..Len(fgAlphaLayer) : LayerOf(Element(fgAlphaLayer[i])) = 2

\* a merged document drawn from three non-empty layers
C13_Witness ==
    /\ pc = "done" /\ mergeRects
    /\ bgLayer # <<>> /\ fgSolidLayer # <<>> /\ fgAlphaLayer # <<>>
    /\ Len(elements) < 1 + Len(bgLayer) + Len(fgSolidLayer) + Len(fgAlphaLayer)
    /\ \E i, j, k \in 2..Len(elements) :
          /\ i < j /\ j < k
          /\ LayerOf(elements[i]) = 0 /\ LayerOf(elements[j]) = 1
          /\ LayerOf(elements[k]) = 2

----------------------------------------------------------------------------
(* Claims about calls of generateGradientSVG one after another *)

----------------------------------------------------------------------------
(* Claims about the segments and the first-match scan *)

\* <<fgColor, bgColor, largeAtStart>> of the segment from s0 to s1
Classified(s0, s1) ==
    CASE s0.isLargeEnd /\ ~s1.isLargeEnd -> <<s0.color, s1.color, "true">>
      [] ~s0.isLargeEnd /\ s1.isLargeEnd -> <<s1.color, s0.color, "false">>
      [] s0.isLargeEnd /\ s1.isLargeEnd -> <<s0.color, Null, "null">>
      [] OTHER -> <<Null, s0.color, "null">>

\* C16: one segment is built for every adjacent pair (s0, s1) of the sorted
\* stops, from s0.position to s1.position, classified by the table
\* large/small, small/large, large/large, small/small; consecutive segments
\* share their boundary, and the segments run from the first position to
\* the last.
C16_SegmentClassification ==
    \E sorted \in {sortedStops(stops)} :
    \E segs \in {segments(sorted)} :
        /\ Len(segs) = IF Len(sorted) = 0 THEN 0 ELSE Len(sorted) - 1
        /\ \A i \in 1..Len(segs) :
              /\ segs[i].startPct = sorted[i].position
              /\ segs[i].endPct = sorted[i + 1].position
              /\ <<segs[i].fgColor, segs[i].bgColor, segs[i].largeAtStart>>
                    = Classified(sorted[i], sorted[i + 1])
        /\ \A i \in 1..(Len(segs) - 1) : segs[i].endPct = segs[i + 1].startPct
        /\ Len(segs) > 0 =>
              /\ segs[1].startPct = sorted[1].position
              /\ segs[Len(segs)].endPct = sorted[Len(sorted)].position

\* three stops passed out of order, two large-end stops of different colors
\* first in sorted order, a cell resolved by their segment
C16_Witness ==
    /\ Len(stops) = 3
    /\ stops # sortedStops(stops)
    /\ \E sorted \in {sortedStops(stops)} :
          /\ sorted[1].isLargeEnd /\ sorted[2].isLargeEnd
          /\ sorted[1].color # sorted[2].color
          /\ Lt(sorted[1].position, sorted[2].position)
          /\ ~sorted[3].isLargeEnd
    /\ segIdx = 1
    /\ cell.fg = sortedStops(stops)[1].color

\* C18: for a non-empty stop list with finite positions and a finite axis
\* percentage, getCellInfo returns from the first-stop rule, the last-stop
\* rule or a matching segment, never from the fallback after the loop.
C18_FallbackUnreachable ==
    Len(stops) > 0 =>
        /\ Branch(sortedStops(stops), xPercent) \in {"first", "last", "segment"}
        /\ cell.fg # Black
        /\ (segIdx = 0) =
              (\/ Le(xPercent, sortedStops(stops)[1].position)
               \/ Ge(xPercent, sortedStops(stops)[Len(stops)].position))

\* a percentage that is the position of the middle one of three stops,
\* resolved by the segment that ends there
C18_Witness ==
    /\ Len(stops) = 3 /\ PairwiseDistinct(stops)
    /\ xPercent = Num(50)
    /\ segIdx = 1
    /\ segments(sortedStops(stops))[1].endPct = xPercent

\* C19: the segment getCellInfo resolves a cell with is never a zero-width
\* one: the scan returns from the first-stop rule, the last-stop rule or a
\* segment with endPct > startPct.
C19_ZeroWidthNeverResolves ==
    segIdx # 0 =>
        \E seg \in {segments(sortedStops(stops))[segIdx]} :
            Gt(seg.endPct, seg.startPct)

\* the percentage of a zero-width segment between two others, resolved by
\* the segment before it
C19_Witness ==
    /\ Len(stops) = 4
    /\ \E segs \in {segments(sortedStops(stops))} :
          /\ segs[2].startPct = segs[2].endPct
          /\ xPercent = segs[2].startPct
          /\ Lt(segs[1].startPct, xPercent)
          /\ Lt(xPercent, segs[3].endPct)
    /\ segIdx = 1

----------------------------------------------------------------------------
(* Claims about the stop editor *)

\* C20 as claimed: a stop list of at least two stops (every page of Spec
\* loads with three or four) still holds at least two after any addStop,
\* updateStop and removeStop the UI offers, several removes from one
\* rendered view included.
C20_AtLeastTwoStops == Len(stops) >= 2

----------------------------------------------------------------------------
(* Claims about the layers and their merge *)

\* a and b look alike, share x and width, and b starts where a ends below
AbutsBelow(a, b) ==
    /\ a.fill = b.fill /\ a.opacity = b.opacity
    /\ a.shapeRendering = b.shapeRendering
    /\ a.x = b.x /\ a.w = b.w
    /\ Add(a.y, a.h) = b.y

\* a and b look alike, share y and height, and b starts where a ends on
\* the right
AbutsRight(a, b) ==
    /\ a.fill = b.fill /\ a.opacity = b.opacity
    /\ a.shapeRendering = b.shapeRendering
    /\ a.y = b.y /\ a.h = b.h
    /\ Add(a.x, a.w) = b.x

\* merging the merged layer changes nothing, and no two of its rectangles
\* could still be joined
Settled(layer) ==
    \E m \in {MergeLayer(layer)} :
    \E again \in {MergeLayer(m)} :
        /\ RectsOf(again) = RectsOf(m)
        /\ Len(again) = Len(m)
        /\ \A i, j \in 1..Len(m) :
              i # j => ~AbutsBelow(m[i], m[j]) /\ ~AbutsRight(m[i], m[j])

\* C21: for each layer of the emitter, merging the merged layer again
\* returns the same rectangles, and the merged layer holds no two
\* rectangles of one fill, opacity and shape hint that share x and width
\* and touch top to bottom, or share y and height and touch left to right.
C21_MergeFixpoint ==
    pc = "serialize" =>
        Settled(bgLayer) /\ Settled(fgSolidLayer) /\ Settled(fgAlphaLayer)

\* a background layer of two colors that both passes shorten, and that
\* still holds more than one rectangle
C21_Witness ==
    /\ pc = "serialize"
    /\ \E v \in {mergeVertically(bgLayer)} :
       \E m \in {mergeHorizontally(v)} :
          /\ Len(v) < Len(bgLayer)
          /\ Len(m) < Len(v)
          /\ Len(m) >= 2
          /\ MergeLayer(m) = m

----------------------------------------------------------------------------
(* Claims about the layers before their merge *)

\* the step pushes at most one rectangle on a layer
PushesAtMostOne(before, after) ==
    /\ Len(after) \in {Len(before), Len(before) + 1}
    /\ SubSeq(after, 1, Len(before)) = before

\* the rectangles the step pushes on a layer
Pushed(before, after) ==
    {after[i] : i \in (Len(before) + 1)..Len(after)}

\* r is the box of cell (row, col)
FillsCell(r) ==
    /\ r.x = Mul(Num(col), squareSize) /\ r.y = Mul(Num(row), squareSize)
    /\ r.w = squareSize /\ r.h = squareSize

\* r is a square inside cell (row, col), on its centre
SquareInCell(r) ==
    /\ Gt(r.w, Zero) /\ Le(r.w, squareSize)
    /\ CentredSquare(r, r.w)

\* a and b share a region of positive area
Overlap(a, b) ==
    /\ Gt(a.w, Zero) /\ Gt(a.h, Zero) /\ Gt(b.w, Zero) /\ Gt(b.h, Zero)
    /\ Lt(a.x, Add(b.x, b.w)) /\ Lt(b.x, Add(a.x, a.w))
    /\ Lt(a.y, Add(b.y, b.h)) /\ Lt(b.y, Add(a.y, a.h))

NoOverlap(layer) ==
    \A i, j \in 1..Len(layer) : i # j => ~Overlap(layer[i], layer[j])

\* C22: before the merge, the body of the loop for a cell pushes at most
\* one rectangle on each of the three layers; the one on bgLayer is the
\* box of the cell, the ones on fgSolidLayer and fgAlphaLayer are squares
\* of side > 0 and <= squareSize on the centre of the cell; and at every
\* state no two rectangles of one layer overlap in area.
C22_RectsInsideCells ==
    /\ [](NoOverlap(bgLayer) /\ NoOverlap(fgSolidLayer) /\ NoOverlap(fgAlphaLayer))
    /\ [][CellStep =>
            /\ PushesAtMostOne(bgLayer, bgLayer')
            /\ PushesAtMostOne(fgSolidLayer, fgSolidLayer')
            /\ PushesAtMostOne(fgAlphaLayer, fgAlphaLayer')
            /\ \A r \in Pushed(bgLayer, bgLayer') : FillsCell(r)
            /\ \A r \in Pushed(fgSolidLayer, fgSolidLayer') : SquareInCell(r)
            /\ \A r \in Pushed(fgAlphaLayer, fgAlphaLayer') : SquareInCell(r)]_vars

\* all cells done, and one of them gave a rectangle to each layer: its
\* box, a solid square smaller than the box and a translucent one around
\* it
C22_Witness ==
    /\ pc = "serialize"
    /\ Len(bgLayer) >= 2 /\ Len(fgSolidLayer) >= 2 /\ Len(fgAlphaLayer) >= 2
    /\ \E i \in 1..Len(bgLayer), j \in 1..Len(fgSolidLayer),
          k \in 1..Len(fgAlphaLayer) :
          \E b \in {bgLayer[i]}, f \in {fgSolidLayer[j]}, a \in {fgAlphaLayer[k]} :
             /\ Add(f.x, Half(f.w)) = Add(b.x, Half(b.w))
             /\ Add(f.y, Half(f.h)) = Add(b.y, Half(b.h))
             /\ Add(a.x, Half(a.w)) = Add(b.x, Half(b.w))
             /\ Add(a.y, Half(a.h)) = Add(b.y, Half(b.h))
             /\ Lt(f.w, a.w) /\ Le(a.w, b.w)
====
